---- MODULE Spec2Model ----
(***************************************************************************)
(* A model of tiny_agent.py: the assistant-message parser, the tool        *)
(* executor, and the Task request / presentation / task loop, driven by    *)
(* the main prompt loop.                                                   *)
(*                                                                         *)
(* Text is modelled as a sequence of tokens.  A token is a whole tag       *)
(* (<name> or </name>) or one blank character.  A tag that takes part in   *)
(* no match of the regexes is ordinary non-blank text, as it is for the    *)
(* regexes.  Stream deltas are non-empty token sequences.                  *)
(***************************************************************************)
EXTENDS Integers, Sequences, FiniteSets, TLC

(* ------------------------------ bounds -------------------------------- *)

\* total number of tokens the backend streams during one process run
MaxTokens == 4
\* largest number of tokens in one stream delta
MaxDelta == 2

(* ------------------------------ tokens -------------------------------- *)

\* tool names of tool_pattern that the model streams
ToolNames == {"read_file", "attempt_completion"}

\* names matched by \w+ in param_pattern: any tag name
TagNames == ToolNames \cup {"path"}

Open(n) == [k |-> "open", n |-> n]

Close(n) == [k |-> "close", n |-> n]

Chr(c) == [k |-> "chr", n |-> c]

Tokens == {Open(n) : n \in TagNames} \cup {Close(n) : n \in TagNames} \cup {Chr(" ")}

IsSpace(t) == t = Chr(" ")

Min(S) == CHOOSE x \in S : \A y \in S : x <= y

(* ------------------------------ str.strip ----------------------------- *)

\* str.strip(): drop the blank characters at both ends
Strip(s) ==
    LET keep == {i \in 1..Len(s) : ~IsSpace(s[i])}
    IN  IF keep = {} THEN <<>>
        ELSE SubSeq(s, Min(keep), CHOOSE x \in keep : \A y \in keep : y <= x)

(* ------------------------------ blocks -------------------------------- *)

NoParams == [x \in {} |-> <<>>]

\* TextBlock(content=c): partial keeps its default, False
TextBlock(c) == [type |-> "text", name |-> "", params |-> NoParams, content |-> c, partial |-> FALSE]

\* ToolUseBlock(name=n, params=p): partial keeps its default, False
ToolUseBlock(n, p) == [type |-> "tool_use", name |-> n, params |-> p, content |-> <<>>, partial |-> FALSE]

(* ------------------------------ the regexes --------------------------- *)

\* a closing tag search that takes the end of the text for a closing tag
FindCloseEager(s, n, i) ==
    LET c == {j \in i..Len(s) : s[j] = Close(n)}
    IN  IF c = {} THEN Len(s) + 1 ELSE Min(c)

\* (.*?)</\1> : the position of the first closing tag of name n at or after i,
\* 0 when there is none
FindClose(s, n, i) ==
    LET c == {j \in i..Len(s) : s[j] = Close(n)}
    IN  IF c = {} THEN 0 ELSE Min(c)

\* re.finditer's next match of <(names)>(.*?)</\1> at or after pos: the
\* leftmost opening tag that has a closing tag after it, 0 when there is none
FindMatch(s, names, pos) ==
    LET st == {i \in pos..Len(s) : /\ s[i].k = "open"
                                   /\ s[i].n \in names
                                   /\ FindClose(s, s[i].n, i + 1) # 0}
    IN  IF st = {} THEN 0 ELSE Min(st)

\* params[k] = v: a later match of the same key replaces the earlier one
SetParam(p, k, v) == [x \in (DOMAIN p) \cup {k} |-> IF x = k THEN v ELSE p[x]]

RECURSIVE ParseParams(_, _, _)
\* the loop over re.finditer(param_pattern, tool_content)
ParseParams(s, pos, p) ==
    LET st == FindMatch(s, TagNames, pos)
    IN  IF st = 0 THEN p
        ELSE LET e == FindClose(s, s[st].n, st + 1)
             IN  ParseParams(s, e + 1, SetParam(p, s[st].n, Strip(SubSeq(s, st + 1, e - 1))))

RECURSIVE ParseFrom(_, _, _)
\* the loop over re.finditer(tool_pattern, message) and the text after it;
\* last_end is the 1-based position of the first token not yet consumed
ParseFrom(message, last_end, content_blocks) ==
    LET st == FindMatch(message, ToolNames, last_end)
    IN  IF st = 0
        THEN LET remaining_text == Strip(SubSeq(message, last_end, Len(message)))
             IN  IF last_end <= Len(message) /\ remaining_text # <<>>
                 THEN Append(content_blocks, TextBlock(remaining_text))
                 ELSE content_blocks
        ELSE LET e == FindClose(message, message[st].n, st + 1)
                 text_content == Strip(SubSeq(message, last_end, st - 1))
                 with_text == IF st > last_end /\ text_content # <<>>
                              THEN Append(content_blocks, TextBlock(text_content))
                              ELSE content_blocks
                 tool_content == Strip(SubSeq(message, st + 1, e - 1))
                 params == ParseParams(tool_content, 1, NoParams)
             IN  ParseFrom(message, e + 1,
                           Append(with_text, ToolUseBlock(message[st].n, params)))

\* MessageParser.parse_assistant_message
parse_assistant_message(message) ==
    LET content_blocks == ParseFrom(message, 1, <<>>)
    IN  IF content_blocks = <<>> /\ Strip(message) # <<>>
        THEN <<TextBlock(Strip(message))>>
        ELSE content_blocks

(* ------------------------------ ToolExecutor -------------------------- *)

\* what a tool body does: it returns, or it raises an exception
ToolOutcomes == {"returns", "raises"}

\* tools whose body can raise: attempt_completion and the unknown-tool
\* branch only format a string
CanRaise(name) == name \in {"read_file", "write_to_file", "execute_command", "list_files"}

\* execute_tool without its try/except: an exception of the tool body leaves it
ExecuteToolUnguarded(name, outcome) ==
    IF CanRaise(name)
    THEN IF outcome = "raises" THEN [raised |-> TRUE, text |-> "exception"]
         ELSE [raised |-> FALSE, text |-> "output"]
    ELSE IF name = "attempt_completion" THEN [raised |-> FALSE, text |-> "Task completed"]
    ELSE [raised |-> FALSE, text |-> "Unknown tool"]

\* ToolExecutor.execute_tool: the try/except turns an exception of the tool
\* body into the string "Error: ..."
execute_tool(name, outcome) ==
    IF CanRaise(name)
    THEN IF outcome = "raises" THEN [raised |-> FALSE, text |-> "Error"]
         ELSE [raised |-> FALSE, text |-> "output"]
    ELSE IF name = "attempt_completion" THEN [raised |-> FALSE, text |-> "Task completed"]
    ELSE [raised |-> FALSE, text |-> "Unknown tool"]

(* ------------------------------ texts --------------------------------- *)

\* a text typed by the operator
OperatorText(t) == [kind |-> "operator", name |-> "", body |-> t]

\* "Continue with the task or call attempt_completion."
ContinuationPrompt == [kind |-> "fixed", name |-> "", body |-> "continue"]

\* f"Tool {block.name} result:\n{result}"
ToolResultText(n, r) == [kind |-> "tool", name |-> n, body |-> r]

\* {"type": "text", "text": t}
TextItem(t) == [type |-> "text", text |-> t]

\* "\n".join(item.get("text", "") for item in user_content if item.get("text"))
JoinTexts(items) == [i \in 1..Len(items) |-> items[i].text]

\* what the operator may type at the task prompt of main
TaskInputs == {"task", "quit", ""}

\* what the operator may type at the next-task prompt of attempt_completion
NextTaskInputs == {"more", "quit", ""}

\* a next-task prompt that aborts only on a quit word
CompletionAbortsOnQuitOnly(next_task_input) == next_task_input = "quit"

\* every branch of the next-task prompt sets task_state.abort
CompletionAborts(next_task_input) == TRUE

\* an except branch that reports the turn as not ended
ErrorReturnContinue == FALSE

\* the value _make_request returns from its except branch
ErrorReturn == TRUE

\* a cursor step that jumps over a block
NextIndexSkipping(index) == index + 2

\* current_streaming_content_index += 1
NextIndex(index) == index + 1

\* a cursor past the end that never marks the results ready
ReadyPastEndNever(streaming) == FALSE

\* with the cursor at or past the end of the blocks the results are ready
\* once the stream has ended
ReadyPastEnd(streaming) == ~streaming

\* a handoff that leaves next_task set
NextTaskKept(t) == t

\* self.next_task = None after the next task was taken
NextTaskAfterHandoff(t) == "None"

\* a request built on the history itself: the appended user message lands in it
HistoryAliased(history, request) == request

\* messages is a copy of the history: the user message appended to it for the
\* request leaves the history as it was
HistoryAfterRequest(history, request) == history

\* an except branch that still records the text streamed so far
HistoryAfterErrorAppending(history, text) ==
    IF text # <<>> THEN Append(history, [role |-> "assistant", content |-> text]) ELSE history

\* the except branch returns before the assistant text is added to the history
HistoryAfterError(history, text) == history

RECURSIVE ToolStartsFrom(_, _)
\* the start of every match of tool_pattern in message from pos on, in order
ToolStartsFrom(message, pos) ==
    LET st == FindMatch(message, ToolNames, pos)
    IN  IF st = 0 THEN <<>>
        ELSE <<st>> \o ToolStartsFrom(message, FindClose(message, message[st].n, st + 1) + 1)

\* match.span()[0] of the match that made the i-th block of blocks, a tool block
StartOfBlock(message, blocks, i) ==
    ToolStartsFrom(message, 1)[Cardinality({j \in 1..i : blocks[j].type = "tool_use"})]

(* ------------------------------ state --------------------------------- *)

VARIABLES
    pc,                                 \* where the process is
    conversation_history,               \* Task.conversation_history
    next_task,                          \* Task.next_task, "None" when unset or None
    user_content,                       \* _task_loop's user_content
    did_end,                            \* what _make_request returned
    messages,                           \* the messages of the last backend request
    assistant_message,                  \* _make_request's assistant_message
    is_streaming,                       \* TaskState.is_streaming
    current_streaming_content_index,    \* TaskState.current_streaming_content_index
    assistant_message_content,          \* TaskState.assistant_message_content
    user_message_content,               \* TaskState.user_message_content
    user_message_content_ready,         \* TaskState.user_message_content_ready
    abort,                              \* TaskState.abort
    outcome,                            \* how the last turn of the task ended
    dispatched,                         \* the tools executed in this turn
    streamed                            \* tokens streamed so far

vars == <<pc, conversation_history, next_task, user_content, did_end, messages,
          assistant_message, is_streaming, current_streaming_content_index,
          assistant_message_content, user_message_content,
          user_message_content_ready, abort, outcome, dispatched, streamed>>

task_state == <<is_streaming, current_streaming_content_index, assistant_message_content,
                user_message_content, user_message_content_ready, abort>>

\* the stream deltas of n tokens
Deltas(n) == [1..n -> Tokens]

Init ==
    /\ pc = "prompt"
    /\ conversation_history = <<>>
    /\ next_task = "None"
    /\ user_content = <<>>
    /\ did_end = FALSE
    /\ messages = <<>>
    /\ assistant_message = <<>>
    /\ is_streaming = FALSE
    /\ current_streaming_content_index = 0
    /\ assistant_message_content = <<>>
    /\ user_message_content = <<>>
    /\ user_message_content_ready = FALSE
    /\ abort = FALSE
    /\ outcome = "none"
    /\ dispatched = <<>>
    /\ streamed = 0

(* ------------------------------ main ---------------------------------- *)

\* main: the operator types nothing or a quit word, the loop breaks and the
\* process ends; nothing of the process is left
MainQuit ==
    /\ pc = "prompt"
    /\ \E task_input \in TaskInputs :
          /\ task_input \in {"", "quit"}
          /\ pc' = "exit"
    /\ conversation_history' = <<>>
    /\ next_task' = "None"
    /\ user_content' = <<>>
    /\ did_end' = FALSE
    /\ messages' = <<>>
    /\ assistant_message' = <<>>
    /\ is_streaming' = FALSE
    /\ current_streaming_content_index' = 0
    /\ assistant_message_content' = <<>>
    /\ user_message_content' = <<>>
    /\ user_message_content_ready' = FALSE
    /\ abort' = FALSE
    /\ outcome' = "none"
    /\ dispatched' = <<>>
    /\ UNCHANGED streamed

\* main: Task(api_provider) and start_task(task_input) up to the call of _task_loop
StartTask ==
    /\ pc = "prompt"
    /\ \E task_input \in TaskInputs :
          /\ task_input \notin {"", "quit"}
          /\ conversation_history' = <<[role |-> "user", content |-> <<OperatorText(task_input)>>]>>
          /\ user_content' = <<TextItem(OperatorText(task_input))>>
    /\ next_task' = "None"
    /\ is_streaming' = FALSE
    /\ current_streaming_content_index' = 0
    /\ assistant_message_content' = <<>>
    /\ user_message_content' = <<>>
    /\ user_message_content_ready' = FALSE
    /\ abort' = FALSE
    /\ did_end' = FALSE
    /\ messages' = <<>>
    /\ assistant_message' = <<>>
    /\ outcome' = "none"
    /\ dispatched' = <<>>
    /\ pc' = "loop"
    /\ UNCHANGED streamed

(* ------------------------------ _make_request ------------------------- *)

\* the head of _task_loop's while and _make_request up to the first chunk
MakeRequest ==
    /\ pc = "loop"
    /\ IF abort
       THEN /\ pc' = "prompt"
            /\ UNCHANGED <<conversation_history, messages, assistant_message, task_state,
                           outcome, dispatched>>
       ELSE /\ current_streaming_content_index' = 0
            /\ assistant_message_content' = <<>>
            /\ user_message_content' = <<>>
            /\ user_message_content_ready' = FALSE
            /\ messages' = Append(conversation_history,
                                  [role |-> "user", content |-> JoinTexts(user_content)])
            /\ assistant_message' = <<>>
            /\ is_streaming' = TRUE
            /\ outcome' = "none"
            /\ dispatched' = <<>>
            /\ pc' = "stream"
            /\ conversation_history' = HistoryAfterRequest(conversation_history, messages')
            /\ UNCHANGED abort
    /\ UNCHANGED <<next_task, user_content, did_end, streamed>>

\* a text chunk arrives: the buffer grows, is parsed again, and
\* _present_content is called
StreamChunk ==
    /\ pc = "stream"
    /\ \E n \in 1..MaxDelta :
          /\ streamed + n <= MaxTokens
          /\ \E delta \in Deltas(n) :
                /\ streamed' = streamed + n
                /\ assistant_message' = assistant_message \o delta
    /\ assistant_message_content' = parse_assistant_message(assistant_message')
    /\ pc' = "present_s"
    /\ UNCHANGED <<conversation_history, next_task, user_content, did_end, messages,
                   is_streaming, current_streaming_content_index, user_message_content,
                   user_message_content_ready, abort, outcome, dispatched>>

\* the stream raises: the except branch returns, the finally clears is_streaming
StreamError ==
    /\ pc = "stream"
    /\ is_streaming' = FALSE
    /\ did_end' = ErrorReturn
    /\ outcome' = "error"
    /\ pc' = "decide"
    /\ conversation_history' = HistoryAfterError(conversation_history, assistant_message)
    /\ UNCHANGED <<next_task, user_content, messages,
                   assistant_message, current_streaming_content_index,
                   assistant_message_content, user_message_content,
                   user_message_content_ready, abort, dispatched, streamed>>

\* the stream ends after its usage chunk: the finally clears is_streaming,
\* the blocks are finalized and _present_content is called once more
StreamEnd ==
    /\ pc = "stream"
    /\ is_streaming' = FALSE
    /\ assistant_message_content' =
          [i \in 1..Len(assistant_message_content) |->
              [assistant_message_content[i] EXCEPT !.partial = FALSE]]
    /\ pc' = "present_f"
    /\ UNCHANGED <<conversation_history, next_task, user_content, did_end, messages,
                   assistant_message, current_streaming_content_index,
                   user_message_content, user_message_content_ready, abort,
                   outcome, dispatched, streamed>>

(* ------------------------------ _present_content ---------------------- *)

\* the block under the cursor
CurrentBlock == assistant_message_content[current_streaming_content_index + 1]

\* _present_content returns to _make_request: in the stream loop an abort
\* breaks out and returns True, otherwise the next chunk is awaited; after
\* the final call the wait loop follows
PresentReturns(ab) ==
    IF pc = "present_s"
    THEN IF ab
         THEN /\ is_streaming' = FALSE
              /\ did_end' = TRUE
              /\ outcome' = "cancelled"
              /\ pc' = "decide"
         ELSE /\ pc' = "stream"
              /\ UNCHANGED <<is_streaming, did_end, outcome>>
    ELSE /\ pc' = "wait"
         /\ UNCHANGED <<is_streaming, did_end, outcome>>

\* an exception leaves _present_content: inside the stream loop the except
\* branch returns, after it nothing catches the exception and the process ends
PresentRaises ==
    IF pc = "present_s"
    THEN /\ is_streaming' = FALSE
         /\ did_end' = ErrorReturn
         /\ outcome' = "error"
         /\ pc' = "decide"
    ELSE /\ pc' = "exit"
         /\ outcome' = "crashed"
         /\ UNCHANGED <<is_streaming, did_end>>

\* the block under the cursor is complete: the cursor moves on, and
\* _present_content calls itself while blocks are left
Advance ==
    /\ user_message_content_ready' =
          IF current_streaming_content_index = Len(assistant_message_content) - 1
          THEN TRUE ELSE user_message_content_ready
    /\ current_streaming_content_index' = NextIndex(current_streaming_content_index)
    /\ IF current_streaming_content_index' < Len(assistant_message_content)
       THEN UNCHANGED <<pc, is_streaming, did_end, outcome>>
       ELSE PresentReturns(abort)

\* the cursor is at or past the end of the blocks
PresentNothing ==
    /\ pc \in {"present_s", "present_f"}
    /\ current_streaming_content_index >= Len(assistant_message_content)
    /\ user_message_content_ready' =
          IF ReadyPastEnd(is_streaming) THEN TRUE ELSE user_message_content_ready
    /\ PresentReturns(abort)
    /\ UNCHANGED <<conversation_history, next_task, user_content, messages,
                   assistant_message, current_streaming_content_index,
                   assistant_message_content, user_message_content, abort,
                   dispatched, streamed>>

\* the block under the cursor is a complete attempt_completion: the operator
\* is asked for the next task
PresentCompletion ==
    /\ pc \in {"present_s", "present_f"}
    /\ current_streaming_content_index < Len(assistant_message_content)
    /\ CurrentBlock.type = "tool_use" /\ ~CurrentBlock.partial
    /\ CurrentBlock.name = "attempt_completion"
    /\ \E next_task_input \in NextTaskInputs :
          /\ next_task' = IF next_task_input # "quit" /\ next_task_input # ""
                          THEN next_task_input ELSE next_task
          /\ abort' = IF CompletionAborts(next_task_input) THEN TRUE ELSE abort
    /\ user_message_content_ready' = TRUE
    /\ PresentReturns(abort')
    /\ UNCHANGED <<conversation_history, user_content, messages, assistant_message,
                   current_streaming_content_index, assistant_message_content,
                   user_message_content, dispatched, streamed>>

\* the block under the cursor is another complete tool: it is executed and
\* its result is collected
PresentTool ==
    /\ pc \in {"present_s", "present_f"}
    /\ current_streaming_content_index < Len(assistant_message_content)
    /\ CurrentBlock.type = "tool_use" /\ ~CurrentBlock.partial
    /\ CurrentBlock.name # "attempt_completion"
    /\ \E o \in ToolOutcomes :
          LET result == execute_tool(CurrentBlock.name, o)
          IN  /\ dispatched' = Append(dispatched,
                                      [name |-> CurrentBlock.name,
                                       params |-> CurrentBlock.params,
                                       index |-> current_streaming_content_index,
                                       received |-> Len(assistant_message),
                                       start |-> StartOfBlock(assistant_message,
                                                              assistant_message_content,
                                                              current_streaming_content_index + 1),
                                       does |-> o])
              /\ IF result.raised
                 THEN /\ PresentRaises
                      /\ UNCHANGED <<user_message_content, user_message_content_ready,
                                     current_streaming_content_index>>
                 ELSE /\ user_message_content' =
                            Append(user_message_content,
                                   TextItem(ToolResultText(CurrentBlock.name, result.text)))
                      /\ Advance
    /\ UNCHANGED <<conversation_history, next_task, user_content, messages,
                   assistant_message, assistant_message_content, abort, streamed>>

\* the block under the cursor is a text block, or a block still partial
PresentText ==
    /\ pc \in {"present_s", "present_f"}
    /\ current_streaming_content_index < Len(assistant_message_content)
    /\ ~(CurrentBlock.type = "tool_use" /\ ~CurrentBlock.partial)
    /\ IF ~CurrentBlock.partial
       THEN Advance
       ELSE /\ PresentReturns(abort)
            /\ UNCHANGED <<user_message_content_ready, current_streaming_content_index>>
    /\ UNCHANGED <<conversation_history, next_task, user_content, messages,
                   assistant_message, assistant_message_content, user_message_content,
                   abort, dispatched, streamed>>

(* ------------------------------ the end of _make_request -------------- *)

\* [b for b in assistant_message_content if isinstance(b, ToolUseBlock)]
tool_blocks(blocks) == SelectSeq(blocks, LAMBDA b : b.type = "tool_use")

\* the value _make_request returns after a turn that produced text
ReturnAfterText(blocks) == tool_blocks(blocks) # <<>>

\* the wait loop ends once the results are ready or the task is aborted; the
\* assistant text is added to the history and the turn returns
TurnReturn ==
    /\ pc = "wait"
    /\ user_message_content_ready \/ abort
    /\ IF abort
       THEN /\ did_end' = TRUE
            /\ outcome' = "cancelled"
            /\ UNCHANGED conversation_history
       ELSE /\ outcome' = "normal"
            /\ IF assistant_message # <<>>
               THEN /\ conversation_history' =
                          Append(conversation_history,
                                 [role |-> "assistant", content |-> assistant_message])
                    /\ did_end' = ReturnAfterText(assistant_message_content)
               ELSE /\ did_end' = TRUE
                    /\ UNCHANGED conversation_history
    /\ pc' = "decide"
    /\ UNCHANGED <<next_task, user_content, messages, assistant_message, task_state,
                   dispatched, streamed>>

(* ------------------------------ _task_loop ---------------------------- *)

\* the turn ended and a next task is set: it becomes the next user content
LoopHandoff ==
    /\ pc = "decide"
    /\ did_end
    /\ next_task # "None"
    /\ user_content' = <<TextItem(OperatorText(next_task))>>
    /\ next_task' = NextTaskAfterHandoff(next_task)
    /\ abort' = FALSE
    /\ pc' = "loop"
    /\ UNCHANGED <<conversation_history, did_end, messages, assistant_message,
                   is_streaming, current_streaming_content_index,
                   assistant_message_content, user_message_content,
                   user_message_content_ready, outcome, dispatched, streamed>>

\* the turn ended and no next task is set: the loop breaks, start_task
\* returns to main
LoopBreak ==
    /\ pc = "decide"
    /\ did_end
    /\ next_task = "None"
    /\ pc' = "prompt"
    /\ UNCHANGED <<conversation_history, next_task, user_content, did_end, messages,
                   assistant_message, task_state, outcome, dispatched, streamed>>

\* the turn did not end: the next request carries the continuation prompt
LoopContinue ==
    /\ pc = "decide"
    /\ ~did_end
    /\ user_content' = <<TextItem(ContinuationPrompt)>>
    /\ pc' = "loop"
    /\ UNCHANGED <<conversation_history, next_task, did_end, messages,
                   assistant_message, task_state, outcome, dispatched, streamed>>

(* ------------------------------ specification ------------------------- *)

Next ==
    \/ MainQuit
    \/ StartTask
    \/ MakeRequest
    \/ StreamChunk
    \/ StreamError
    \/ StreamEnd
    \/ PresentNothing
    \/ PresentCompletion
    \/ PresentTool
    \/ PresentText
    \/ TurnReturn
    \/ LoopHandoff
    \/ LoopBreak
    \/ LoopContinue

Spec == Init /\ [][Next]_vars

TypeOK ==
    /\ pc \in {"prompt", "loop", "stream", "present_s", "present_f", "wait", "decide", "exit"}
    /\ streamed \in 0..MaxTokens
    /\ current_streaming_content_index \in 0..MaxTokens
    /\ outcome \in {"none", "normal", "cancelled", "error", "crashed"}

(* ------------------------------ helpers of the properties ------------- *)

IsPrefix(s, t) == Len(s) <= Len(t) /\ SubSeq(t, 1, Len(s)) = s

\* s occurs in t as a run of consecutive elements
OccursIn(s, t) == \E k \in 0..Len(t) : k + Len(s) <= Len(t) /\ SubSeq(t, k + 1, k + Len(s)) = s

\* buf holds an opening tag of n and, after it, a closing tag of n
HasCompleteSpan(buf, n) ==
    \E i \in 1..Len(buf) : \E j \in 1..Len(buf) : i < j /\ buf[i] = Open(n) /\ buf[j] = Close(n)

\* a turn has just returned without cancellation or backend error
TurnEndedNormally == pc = "decide" /\ outcome = "normal"

\* _present_content is about to handle a complete attempt_completion block
AtCompletion ==
    /\ pc \in {"present_s", "present_f"}
    /\ current_streaming_content_index < Len(assistant_message_content)
    /\ CurrentBlock.type = "tool_use" /\ ~CurrentBlock.partial
    /\ CurrentBlock.name = "attempt_completion"

\* _present_content is about to execute a complete tool block
AtTool ==
    /\ pc \in {"present_s", "present_f"}
    /\ current_streaming_content_index < Len(assistant_message_content)
    /\ CurrentBlock.type = "tool_use" /\ ~CurrentBlock.partial
    /\ CurrentBlock.name # "attempt_completion"

(* ------------------------------ C1 ------------------------------------ *)

\* C1: a turn that completes without cancellation or backend error and
\* produced assistant text returns continue = true (did_end = FALSE) and the
\* Task Loop runs another turn with the continuation prompt when the final
\* blocks hold a tool block; with no tool block it returns continue = false
\* and the Task Loop stops without another request.
C1_ContinueIffTools ==
    [][(TurnEndedNormally /\ assistant_message # <<>>) =>
          IF tool_blocks(assistant_message_content) # <<>>
          THEN ~did_end /\ pc' = "loop" /\ user_content' = <<TextItem(ContinuationPrompt)>>
          ELSE did_end /\ pc' = "prompt"]_vars

(* ------------------------------ C2 ------------------------------------ *)

\* C2: the results collected in a turn that completed are part of the user
\* content of the next backend request; the Task Loop does not stop or go on
\* without them.
C2_ResultsSentNext ==
    [][(TurnEndedNormally /\ user_message_content # <<>>) =>
          (pc' = "loop" /\ OccursIn(user_message_content, user_content'))]_vars

(* ------------------------------ C3 ------------------------------------ *)

\* the tool blocks in front of the first attempt_completion block
RECURSIVE ToolsBeforeCompletion(_)
ToolsBeforeCompletion(blocks) ==
    IF blocks = <<>> THEN <<>>
    ELSE IF Head(blocks).type # "tool_use" THEN ToolsBeforeCompletion(Tail(blocks))
    ELSE IF Head(blocks).name = "attempt_completion" THEN <<>>
    ELSE <<Head(blocks)>> \o ToolsBeforeCompletion(Tail(blocks))

\* the name and parameters of what was executed in this turn, in order
DispatchedCalls == [i \in 1..Len(dispatched) |-> <<dispatched[i].name, dispatched[i].params>>]

CallsOf(blocks) == [i \in 1..Len(blocks) |-> <<blocks[i].name, blocks[i].params>>]

\* C3: when a turn ends without cancellation or backend error, the tools
\* executed in it are exactly the tool blocks of the parse of the whole
\* buffer in front of the first attempt_completion, each once, in order.
C3_AllToolsDispatchedOnce ==
    TurnEndedNormally =>
        DispatchedCalls = CallsOf(ToolsBeforeCompletion(parse_assistant_message(assistant_message)))

(* ------------------------------ C4 ------------------------------------ *)

\* C4: reaching an attempt_completion block sets abort, and while abort is
\* set in a task the cursor does not move, no tool is executed, no text is
\* added to the buffer and _present_content is not entered again.
C4_CompletionShortCircuit ==
    [][/\ AtCompletion => abort'
       /\ (abort /\ pc \notin {"prompt", "exit"}) =>
             /\ current_streaming_content_index' = current_streaming_content_index
             /\ dispatched' = dispatched
             /\ user_message_content' = user_message_content
             /\ assistant_message' = assistant_message
             /\ pc' \notin {"stream", "present_s", "present_f"}]_vars

\* a turn was cancelled at an attempt_completion block that has a block after it
C4_Witness ==
    /\ pc = "decide" /\ outcome = "cancelled" /\ abort
    /\ current_streaming_content_index + 1 < Len(assistant_message_content)
    /\ assistant_message_content[current_streaming_content_index + 1].name = "attempt_completion"

(* ------------------------------ C5 ------------------------------------ *)

\* the operator's answers that name a next task
FollowUps == NextTaskInputs \ {"quit", ""}

\* C5: a backend request whose user content is the operator's follow-up
\* carries that follow-up as its only message.
C5_FreshHistoryOnHandoff ==
    \A t \in FollowUps :
        (pc = "stream" /\ messages[Len(messages)].content = <<OperatorText(t)>>) =>
            messages = <<[role |-> "user", content |-> <<OperatorText(t)>>]>>

(* ------------------------------ C6 ------------------------------------ *)

\* C6: every tool executed in the turn, and the attempt_completion that
\* aborted it, had its opening tag and after it its closing tag in the text
\* received when it was presented.
C6_NoPrematureDispatch ==
    /\ \A i \in 1..Len(dispatched) :
          /\ dispatched[i].received <= Len(assistant_message)
          /\ HasCompleteSpan(SubSeq(assistant_message, 1, dispatched[i].received),
                             dispatched[i].name)
    /\ (abort /\ pc # "exit") => HasCompleteSpan(assistant_message, "attempt_completion")

\* a tool was executed while the stream was still open
C6_Witness == pc = "stream" /\ dispatched # <<>> /\ is_streaming

(* ------------------------------ C7 ------------------------------------ *)

\* C7: execute_tool returns a string for every tool name and every
\* behaviour of the tool body; a step of _present_content that executes a
\* tool appends one result, moves the cursor by one, and neither aborts nor
\* ends the turn.
C7_ToolFailureNotFatal ==
    [][AtTool =>
          /\ \A o \in ToolOutcomes :
                /\ ~execute_tool(CurrentBlock.name, o).raised
                /\ ~execute_tool("unknown_tool", o).raised
          /\ Len(user_message_content') = Len(user_message_content) + 1
          /\ user_message_content'[Len(user_message_content')].text.name = CurrentBlock.name
          /\ current_streaming_content_index' = current_streaming_content_index + 1
          /\ abort' = abort /\ ~abort'
          /\ outcome' = "none"
          /\ pc' \in {"present_s", "present_f", "stream", "wait"}]_vars

\* a tool body raised, its error text was collected and the stream went on
C7_Witness ==
    /\ pc = "stream" /\ dispatched # <<>>
    /\ dispatched[Len(dispatched)].does = "raises"
    /\ Len(user_message_content) = Len(dispatched)
    /\ user_message_content[Len(user_message_content)].text.body = "Error"

(* ------------------------------ C8 ------------------------------------ *)

\* C8: after a backend error the stream is closed and the task only returns
\* to the task prompt of main: no request follows, the process does not end.
C8_BackendErrorEndsTaskOnly ==
    outcome = "error" => (~is_streaming /\ pc \in {"decide", "prompt"})

\* the stream failed after text had arrived and main is back at its prompt
C8_Witness == outcome = "error" /\ pc = "prompt" /\ assistant_message # <<>>

(* ------------------------------ C9 ------------------------------------ *)

NonPartial(blocks) == SelectSeq(blocks, LAMBDA b : ~b.partial)

\* no tool span of b2 is closed by a tag that b1 does not have
NoNewCompleteTag(b1, b2) ==
    \A n \in ToolNames :
        ~\E i \in 1..Len(b2) : \E j \in (Len(b1) + 1)..Len(b2) :
            i < j /\ b2[i] = Open(n) /\ b2[j] = Close(n)

\* C9: when a chunk extends the buffer without completing a tool span, the
\* non-partial blocks of the parse before it are a prefix of the non-partial
\* blocks of the parse after it.
C9_PrefixStability ==
    [][(pc = "stream" /\ pc' = "present_s"
          /\ NoNewCompleteTag(assistant_message, assistant_message')) =>
          IsPrefix(NonPartial(assistant_message_content),
                   NonPartial(assistant_message_content'))]_vars

(* ------------------------------ C10 ----------------------------------- *)

\* buf has one tool opening tag, and no closing tag of that tool after it
OnlyUnterminatedTool(buf) ==
    LET opens == {i \in 1..Len(buf) : buf[i].k = "open" /\ buf[i].n \in ToolNames}
    IN  /\ Cardinality(opens) = 1
        /\ \A i \in opens : FindClose(buf, buf[i].n, i + 1) = 0

\* C10: a buffer whose only tool opening tag is not closed parses to one
\* text block, the whole stripped buffer, with partial set.
C10_UnterminatedIsPartialText ==
    (pc = "present_s" /\ OnlyUnterminatedTool(assistant_message)) =>
        assistant_message_content =
            <<[TextBlock(Strip(assistant_message)) EXCEPT !.partial = TRUE]>>

(* ------------------------------ C11 ----------------------------------- *)

\* a turn was cancelled at an attempt_completion and the operator named no
\* next task: the answer was a quit word or empty
CancelledWithoutNextTask ==
    pc = "decide" /\ outcome = "cancelled" /\ abort /\ next_task = "None"

\* C11: when the operator answers the next-task prompt of attempt_completion
\* with a quit word or with nothing, the process ends; main does not ask for
\* another task.
C11_QuitEndsProcess ==
    [][CancelledWithoutNextTask => pc' = "exit"]_vars

(* ------------------------------ C12 ----------------------------------- *)

\* C12: while the stream of a turn is open the cursor is not past the last
\* block of the current parse.
C12_CursorStopsAtTrailingBlock ==
    (is_streaming /\ assistant_message_content # <<>>) =>
        current_streaming_content_index <= Len(assistant_message_content) - 1

(* ------------------------------ C13 ----------------------------------- *)

\* the turn is between its request and its return
InTurn == pc \in {"stream", "present_s", "present_f", "wait"}

\* C13: during a turn the results are marked ready only when the stream has
\* ended and the cursor is at the end of the blocks, or when the turn was
\* aborted.
C13_ReadyOnlyAfterStream ==
    (InTurn /\ user_message_content_ready) =>
        \/ ~is_streaming /\ current_streaming_content_index >= Len(assistant_message_content)
        \/ abort

(* ------------------------------ C14 ----------------------------------- *)

\* blocks holds a tool block of that name with those parameters
HasToolBlock(blocks, name, params) ==
    \E j \in 1..Len(blocks) :
        /\ blocks[j].type = "tool_use"
        /\ blocks[j].name = name
        /\ blocks[j].params = params

\* C14: when a turn has ended, every tool executed in it is a tool block,
\* with the same name and parameters, of the parse of the whole buffer.
C14_DispatchedStaysInFinalParse ==
    TurnEndedNormally =>
        \A i \in 1..Len(dispatched) :
            HasToolBlock(parse_assistant_message(assistant_message),
                         dispatched[i].name, dispatched[i].params)

(* ------------------------------ C15 ----------------------------------- *)

\* _present_content is about to handle a complete block that is not an
\* attempt_completion
AtPresentedBlock ==
    /\ pc \in {"present_s", "present_f"}
    /\ current_streaming_content_index < Len(assistant_message_content)
    /\ ~CurrentBlock.partial
    /\ ~(CurrentBlock.type = "tool_use" /\ CurrentBlock.name = "attempt_completion")

\* no two entries of d are executions of the same tool span of the buffer
NoSpanTwice(d) == \A i \in 1..Len(d) : \A j \in 1..Len(d) : i # j => d[i].start # d[j].start

\* C15: within a turn the cursor never decreases, it grows by exactly one
\* for every block presented and not otherwise, and no tool span of the
\* buffer is executed twice.
C15_CursorMonotoneNoRepeat ==
    [][InTurn =>
          /\ current_streaming_content_index' >= current_streaming_content_index
          /\ IF AtPresentedBlock
             THEN current_streaming_content_index' = current_streaming_content_index + 1
             ELSE current_streaming_content_index' = current_streaming_content_index
          /\ NoSpanTwice(dispatched')]_vars

\* two tools were executed in one turn, in two presentation passes
C15_Witness ==
    /\ pc = "stream" /\ Len(dispatched) = 2
    /\ dispatched[1].received < dispatched[2].received

(* ------------------------------ C16 ----------------------------------- *)

\* C16: once the final presentation pass has returned, the results are ready
\* or the turn is aborted, so the wait loop is left at once.
C16_WaitLoopExits ==
    pc = "wait" => (user_message_content_ready \/ abort)

\* the wait loop is reached with the cursor past the end of the final blocks
C16_Witness ==
    /\ pc = "wait" /\ ~abort
    /\ current_streaming_content_index > Len(assistant_message_content)

(* ------------------------------ C17 ----------------------------------- *)

\* C17: when a cancelled turn has returned and next_task is set, the task
\* loop clears next_task and abort and goes on with next_task as the user
\* content of the next request; when next_task is not set it stops and abort
\* stays set.  next_task is only ever set between the answer of the operator
\* and that step of the task loop, and a request carries the user content
\* the task loop chose.
C17_HandoffConsumedOnce ==
    [][/\ (pc = "decide" /\ outcome = "cancelled" /\ next_task # "None") =>
             /\ next_task' = "None"
             /\ ~abort'
             /\ pc' = "loop"
             /\ user_content' = <<TextItem(OperatorText(next_task))>>
       /\ (pc = "decide" /\ outcome = "cancelled" /\ next_task = "None") =>
             /\ abort /\ abort'
             /\ pc' = "prompt"
       /\ next_task' # "None" => (abort' /\ pc' \in {"wait", "decide"})
       /\ (pc = "loop" /\ pc' = "stream") =>
             messages'[Len(messages')] = [role |-> "user", content |-> JoinTexts(user_content)]]_vars

\* a request was made whose user content is the next task of the operator
C17_Witness ==
    /\ pc = "stream" /\ next_task = "None" /\ ~abort
    /\ \E t \in FollowUps : messages[Len(messages)].content = <<OperatorText(t)>>

(* ------------------------------ C18 ----------------------------------- *)

\* a task is running
InTask == pc \notin {"prompt", "exit"}

\* C18: during a task the history is the initial user entry followed by
\* assistant entries only, no step removes or changes an entry, and a step
\* adds at most one entry, which only the return of a turn does; a request
\* is the history followed by the user content of the turn, and making it
\* leaves the history as it was.
C18_HistoryAppendOnly ==
    [][InTask =>
          /\ conversation_history # <<>>
          /\ conversation_history[1].role = "user"
          /\ \A i \in 2..Len(conversation_history) : conversation_history[i].role = "assistant"
          /\ InTask' => /\ IsPrefix(conversation_history, conversation_history')
                        /\ Len(conversation_history') <= Len(conversation_history) + 1
                        /\ conversation_history' # conversation_history => pc = "wait"
          /\ (pc = "loop" /\ pc' = "stream") =>
                /\ messages' = Append(conversation_history,
                                      [role |-> "user", content |-> JoinTexts(user_content)])
                /\ conversation_history' = conversation_history]_vars

\* a second request of a task was made: the continuation prompt was sent,
\* the history holds the task and the assistant text only
C18_Witness ==
    /\ pc = "stream" /\ Len(conversation_history) = 2
    /\ messages[Len(messages)].content = <<ContinuationPrompt>>

(* ------------------------------ C19 ----------------------------------- *)

\* C19: when a turn has ended by cancellation or by a backend error, the
\* history is the one the request of the turn was built from.
C19_FailedTurnKeepsHistory ==
    (pc = "decide" /\ outcome \in {"cancelled", "error"}) =>
        conversation_history = SubSeq(messages, 1, Len(messages) - 1)

\* a turn failed on a backend error after text had arrived and a tool had
\* been executed
C19_Witness ==
    /\ pc = "decide" /\ outcome = "error"
    /\ assistant_message # <<>> /\ dispatched # <<>>

\* a turn was cancelled after text had arrived and a tool had been executed
C19_WitnessCancelled ==
    /\ pc = "decide" /\ outcome = "cancelled"
    /\ assistant_message # <<>> /\ dispatched # <<>>

====
